---- MODULE Spec2Model ----
(***************************************************************************)
(* Model of meta-hybrid_mount: inventory rules (core/inventory.rs), the    *)
(* planner (core/planner.rs, core/tree.rs), the executor                   *)
(* (core/executor.rs, mount/magic.rs) and the staged union mount           *)
(* (mount/overlay.rs).                                                     *)
(*                                                                         *)
(* A path is a sequence of component names; the virtual root is <<>>.      *)
(* A string (rule key, get_mode query) is a sequence of tokens, "/" being  *)
(* the separator token.                                                    *)
(***************************************************************************)
EXTENDS Integers, Sequences, FiniteSets, TLC

VARIABLES
    \* ---- planner / executor -------------------------------------------
    config,          \* Config: force_ext4, partitions
    hymo_available,  \* HymoFs::is_available()
    modules,         \* Vec<Module> handed to generate, ascending id
    ingested,        \* number of modules the loop of generate has handled
    tree,            \* FsNode tree: path -> [mutations, strategy]
    pc,              \* "generate" | "resolve" | "execute" | "executing" | "done"
    todo,            \* call stack of execute_node: frames still to run
    events,          \* log of executed nodes, in order
    stats,           \* ExecutionStats
    result,          \* ExecutionResult, or NoResult
    tmpfs,           \* mounted skeletons: path -> (entry name -> entry)
    hymo_rules,      \* rule set of the kernel redirector
    hymo_log,        \* mirror copies and redirector ioctls issued, in order
    \* ---- ModuleRules ----------------------------------------------------
    rule_files,      \* the three rule sources ModuleRules::load reads
    rules,           \* the ModuleRules value load returned, once loaded
    query,           \* last get_mode argument
    mode_out,        \* last get_mode result
    \* ---- staged union mount -------------------------------------------
    lower_dirs,      \* lengths of the lowerdir strings of the call
    batches,         \* chunks of indices into lower_dirs
    stage_i,         \* loop counter of mount_overlayfs_staged
    guard,           \* StagedMountGuard: mounts, committed
    staging,         \* RUN_DIR/staging: stage dir -> "dir" | "mounted"
    stack,           \* layers of the union built so far, top first
    spc,             \* "idle" | "staged" | "ok" | "err"
    created,         \* stage directories created by this call
    \* ---- inventory scan -----------------------------------------------
    source_dir,      \* the directory scan is called on
    dir_entries,     \* what read_dir returned, in its order
    slots,           \* per entry: "pending", or the closure's result
    scan_out,        \* what scan returned
    scan_pc          \* "idle" | "scanning" | "done"

vars == <<config, hymo_available, modules, ingested, tree, pc, todo, events,
          stats, result, tmpfs, hymo_rules, hymo_log, rule_files, rules,
          query,
          mode_out,
          lower_dirs, batches, stage_i, guard, staging, stack, spc, created,
          source_dir, dir_entries, slots, scan_out, scan_pc>>

planVars == <<config, hymo_available, modules, ingested, tree, pc, todo,
              events, stats, result, tmpfs, hymo_rules, hymo_log>>
rulesVars == <<rule_files, rules, query, mode_out>>
stagedVars == <<lower_dirs, batches, stage_i, guard, staging, stack, spc,
                created>>
scanVars == <<source_dir, dir_entries, slots, scan_out, scan_pc>>

(***************************************************************************)
(* Bounds                                                                  *)
(***************************************************************************)
MaxModules == 2
MaxLegacyLines == 2
MaxLowerdirs == 4

(***************************************************************************)
(* Generic helpers                                                         *)
(***************************************************************************)
Range(s) == {s[i] : i \in DOMAIN s}

Perms(S) == {f \in [1..Cardinality(S) -> S] : \A i, j \in 1..Cardinality(S) :
                                                  f[i] = f[j] => i = j}

StartsWith(s, p) == Len(p) <= Len(s) /\ SubSeq(s, 1, Len(p)) = p

EmptyMap == [x \in {} |-> "Auto"]

(***************************************************************************)
(* core/inventory.rs: MountMode, ModuleRules                               *)
(***************************************************************************)
MountMode == {"Overlay", "HymoFs", "Magic", "Ignore", "Auto"}

RECURSIVE trim_start_matches(_)
trim_start_matches(s) ==
    IF s # <<>> /\ Head(s) = "/" THEN trim_start_matches(Tail(s)) ELSE s

\* The prefix loop of get_mode: `order` is the iteration order of the
\* HashMap; the first key k with clean_path starting with k + "/" decides.
RECURSIVE first_prefix_match(_, _, _)
first_prefix_match(paths, clean_path, order) ==
    IF order = <<>> THEN "none"
    ELSE IF StartsWith(clean_path, Append(Head(order), "/"))
         THEN paths[Head(order)]
         ELSE first_prefix_match(paths, clean_path, Tail(order))

lowered_default(r) ==
    IF r.default_mode = "Auto" THEN "Overlay" ELSE r.default_mode

get_mode(r, relative_path, order) ==
    LET clean_path == trim_start_matches(relative_path)
        hit == first_prefix_match(r.paths, clean_path, order)
    IN  IF clean_path \in DOMAIN r.paths THEN r.paths[clean_path]
        ELSE IF hit # "none" THEN hit
        ELSE lowered_default(r)

\* Every result get_mode can give for some iteration order of the map.
get_mode_outcomes(r, relative_path) ==
    {get_mode(r, relative_path, o) : o \in Perms(DOMAIN r.paths)}

\* The mode word of a legacy line.
legacy_mode(word) ==
    CASE word = "overlay" -> "Overlay"
      [] word \in {"hymo", "hymofs"} -> "HymoFs"
      [] word \in {"magic", "tmpfs"} -> "Magic"
      [] word \in {"ignore", "skip"} -> "Ignore"
      [] OTHER -> "Auto"

\* HashMap::insert / extend: a later value replaces an earlier one.
paths_insert(paths, k, mode) ==
    [x \in DOMAIN paths \cup {k} |-> IF x = k THEN mode ELSE paths[x]]

\* Faulty variant: on a collision the earlier value kept.
paths_extend_keep(paths, more) ==
    [x \in DOMAIN paths \cup DOMAIN more |->
        IF x \in DOMAIN paths THEN paths[x] ELSE more[x]]

paths_extend(paths, more) ==
    [x \in DOMAIN paths \cup DOMAIN more |->
        IF x \in DOMAIN more THEN more[x] ELSE paths[x]]

RECURSIVE load_legacy(_, _)
load_legacy(paths, lines) ==
    IF lines = <<>> THEN paths
    ELSE load_legacy(paths_insert(paths, trim_start_matches(Head(lines).path),
                                  legacy_mode(Head(lines).word)),
                     Tail(lines))

Missing == [kind |-> "missing"]
Invalid == [kind |-> "invalid"]
Parsed(r) == [kind |-> "parsed", rules |-> r]

\* A structured source replaces default_mode and extends paths when it parses.
merge_json(r, file) ==
    IF file.kind = "parsed"
    THEN [default_mode |-> file.rules.default_mode,
          paths |-> paths_extend(r.paths, file.rules.paths)]
    ELSE r

ModuleRules_default == [default_mode |-> "Auto", paths |-> EmptyMap]

load(files) ==
    LET legacy == IF files.legacy.kind = "lines"
                  THEN [ModuleRules_default EXCEPT
                          !.paths = load_legacy(EmptyMap, files.legacy.lines)]
                  ELSE ModuleRules_default
    IN  merge_json(merge_json(legacy, files.internal), files.user)

(***************************************************************************)
(* core/tree.rs                                                            *)
(***************************************************************************)
FileType == {"File", "Directory", "Symlink"}

NoStrategy == [kind |-> "none"]
Unresolved == [kind |-> "Unresolved"]
Passthrough == [kind |-> "Passthrough"]
Magic == [kind |-> "Magic"]
Overlay(l) == [kind |-> "Overlay", lowerdirs |-> l]
Hymo(s) == [kind |-> "Hymo", source |-> s]
Bind(s) == [kind |-> "Bind", source |-> s]

FsNode_new == [mutations |-> <<>>, strategy |-> Unresolved]

Root == <<>>

Parent(p) == SubSeq(p, 1, Len(p) - 1)

Name(p) == IF p = Root THEN "/" ELSE p[Len(p)]

Children(t, p) == {q \in DOMAIN t : Len(q) = Len(p) + 1 /\ Parent(q) = p}

IsAncestor(a, p) == Len(a) < Len(p) /\ SubSeq(p, 1, Len(a)) = a

get_or_create_child(t, p) ==
    IF p \in DOMAIN t THEN t ELSE (p :> FsNode_new) @@ t

insert_mutation(t, p, m) ==
    [t EXCEPT ![p].mutations = Append(@, m)]

(***************************************************************************)
(* Environment read by the planner and the executor: the device's file     *)
(* system before any mount, and the module store.                          *)
(***************************************************************************)
\* defs::BUILTIN_PARTITIONS
BUILTIN_PARTITIONS == {"system", "vendor", "product", "system_ext"}

\* Partition directories the modules of the model may ship.
PartitionNames == {"system", "my_part"}

\* The device tree below a partition, the same under every partition.
DiskBelow ==
    (<<"etc">> :> "Directory") @@ (<<"etc", "hosts">> :> "File") @@
    (<<"etc", "init">> :> "Directory") @@ (<<"etc", "init", "rc">> :> "File") @@
    (<<"etc", "mtab">> :> "Symlink")

DiskType(p) ==
    IF p = Root THEN "Directory"
    ELSE IF p[1] \notin PartitionNames THEN "None"
    ELSE IF Len(p) = 1 THEN "Directory"
    ELSE IF Tail(p) \in DOMAIN DiskBelow THEN DiskBelow[Tail(p)]
    ELSE "None"

DiskPaths == {<<>>} \cup {<<part>> : part \in PartitionNames}
             \cup {<<part>> \o q : part \in PartitionNames, q \in DOMAIN DiskBelow}

\* Original entries of directory p: name -> file type.
DiskEntries(p) ==
    LET kids == {q \in DiskPaths : Len(q) = Len(p) + 1 /\ Parent(q) = p}
    IN  [n \in {Name(q) : q \in kids} |-> DiskType(Append(p, n))]

\* Module ids in ascending order, as scan sorts them.
ModuleIds == <<"a", "b", "c", "d">>

IdRank(id) == CHOOSE i \in DOMAIN ModuleIds : ModuleIds[i] = id

\* Modules whose copy exists under storage_root, under HYMO_MIRROR_DIR.
storage_has == {"a", "c"}
mirror_has == {"b"}

(***************************************************************************)
(* Inputs: the module list                                                 *)
(***************************************************************************)
\* to_string_lossy of a relative path: components joined by "/".
RECURSIVE PathStr(_)
PathStr(p) ==
    IF Len(p) <= 1 THEN p ELSE Append(PathStr(Parent(p)), "/") \o <<Name(p)>>

\* What a module ships below a partition directory (closed under parents).
Shapes == {
    (<<"etc">> :> "File"),
    (<<"etc">> :> "Directory") @@ (<<"etc", "hosts">> :> "File"),
    (<<"etc">> :> "Directory") @@ (<<"etc", "hosts">> :> "Symlink"),
    (<<"etc">> :> "Directory") @@ (<<"etc", "hosts">> :> "Directory"),
    (<<"etc">> :> "Directory") @@ (<<"etc", "init">> :> "Directory")
        @@ (<<"etc", "hosts">> :> "File") }

Content(part, shape) ==
    [p \in {<<part>> \o q : q \in DOMAIN shape} |-> shape[Tail(p)]]

RuleChoices(part) ==
    {[default_mode |-> d, paths |-> EmptyMap] :
        d \in {"Auto", "HymoFs", "Magic", "Ignore"}}
    \cup {[default_mode |-> "Auto",
           paths |-> (PathStr(<<part, "etc", "hosts">>) :> "Magic")]}

ModuleBodies ==
    UNION {{[rules |-> r, content |-> Content(part, sh)] :
              r \in RuleChoices(part), sh \in Shapes} : part \in PartitionNames}

\* The lists of n modules, in ascending order of id.
ModuleLists(n) ==
    {[i \in 1..n |-> [id |-> ModuleIds[i],
                      source_path |-> <<"modules", ModuleIds[i]>>,
                      rules |-> g[i].rules,
                      content |-> g[i].content]] :
        g \in [1..n -> ModuleBodies]}

Configs == [force_ext4 : BOOLEAN, partitions : {<<>>, <<"my_part">>}]

(***************************************************************************)
(* core/planner.rs                                                         *)
(***************************************************************************)
\* The content root generate walks for a module, or "none".
content_path(m) ==
    LET search_root == IF m.rules.default_mode = "HymoFs"
                       THEN "mirror" ELSE "storage"
        found == IF search_root = "mirror" THEN m.id \in mirror_has
                 ELSE m.id \in storage_has
    IN  IF found THEN <<search_root, m.id>> ELSE m.source_path

get_target_partitions(cfg, m) ==
    LET present == {p[1] : p \in DOMAIN m.content}
    IN  (BUILTIN_PARTITIONS \cap present)
        \cup (Range(cfg.partitions) \cap present)

RECURSIVE create_path(_, _, _)
create_path(t, relative, i) ==
    IF i > Len(relative) THEN t
    ELSE create_path(get_or_create_child(t, SubSeq(relative, 1, i)),
                     relative, i + 1)

insert_into_tree(t, relative, real_source, ft, m, mode) ==
    insert_mutation(create_path(t, relative, 1), relative,
                    [module_id |-> m.id, source_path |-> real_source,
                     file_type |-> ft, mode |-> mode])

\* WalkDir of the existing target partitions: the entries to insert.
walk_entries(cfg, m) ==
    {p \in DOMAIN m.content : p[1] \in get_target_partitions(cfg, m)}

\* Orders in which the walk can yield the entries: a directory comes before
\* its contents.
WalkOrders(E) ==
    {o \in Perms(E) : \A i, j \in DOMAIN o : IsAncestor(o[i], o[j]) => i < j}

\* The trees the walk of module m can leave: get_mode is evaluated per entry,
\* each time under some iteration order of the rule map.
RECURSIVE insert_all(_, _, _)
insert_all(t, m, order) ==
    IF order = <<>> THEN {t}
    ELSE UNION {insert_all(
                    insert_into_tree(t, Head(order),
                                     content_path(m) \o Head(order),
                                     m.content[Head(order)], m, mode),
                    m, Tail(order)) :
                  mode \in get_mode_outcomes(m.rules, PathStr(Head(order)))}

is_partition_root(t, p) ==
    Name(p) \in BUILTIN_PARTITIONS /\ Len(p) >= 1 /\ Parent(p) = Root

\* Faulty variant: HymoFs on a directory not demoted.
top_mutation_strategy_nodemote(node) ==
    IF node.mutations = <<>> THEN NoStrategy
    ELSE LET mut_ == node.mutations[1]
         IN  IF mut_.mode = "HymoFs" THEN Hymo(mut_.source_path)
             ELSE IF mut_.mode = "Magic"
             THEN IF mut_.file_type = "Directory" THEN Magic
                  ELSE Bind(mut_.source_path)
             ELSE NoStrategy

\* The strategy the first mutation's mode forces, or NoStrategy.
top_mutation_strategy(node) ==
    IF node.mutations = <<>> THEN NoStrategy
    ELSE LET mut_ == node.mutations[1]
         IN  IF mut_.mode = "HymoFs"
             THEN IF mut_.file_type = "Directory" THEN Passthrough
                  ELSE Hymo(mut_.source_path)
             ELSE IF mut_.mode = "Magic"
             THEN IF mut_.file_type = "Directory" THEN Magic
                  ELSE Bind(mut_.source_path)
             ELSE NoStrategy

has_system_dir(p) == DiskType(p) = "Directory"

\* Faulty variant: force_ext4 not consulted.
can_overlay_no_force(cfg, node, p) ==
    /\ \A i \in DOMAIN node.mutations : node.mutations[i].file_type = "Directory"
    /\ has_system_dir(p)

can_overlay(cfg, node, p) ==
    /\ ~cfg.force_ext4
    /\ \A i \in DOMAIN node.mutations : node.mutations[i].file_type = "Directory"
    /\ has_system_dir(p)

\* Faulty variant: lowerdirs collected in reverse.
overlay_lowerdirs_rev(node) ==
    [i \in DOMAIN node.mutations |->
        node.mutations[Len(node.mutations) + 1 - i].source_path]

overlay_lowerdirs(node) ==
    [i \in DOMAIN node.mutations |-> node.mutations[i].source_path]

\* Faulty variant: the last arm of resolve_tree missing.
fallback_strategy_unresolved(has_modified_children) ==
    IF has_modified_children THEN Magic ELSE Unresolved

fallback_strategy(has_modified_children) ==
    IF has_modified_children THEN Magic ELSE Passthrough

\* resolve_tree for one node, its children already resolved.
resolve_node(cfg, t, p, childStrategy) ==
    IF p = Root THEN Passthrough
    ELSE IF is_partition_root(t, p) THEN Passthrough
    ELSE IF top_mutation_strategy(t[p]) # NoStrategy
         THEN top_mutation_strategy(t[p])
    ELSE IF can_overlay(cfg, t[p], p) /\ overlay_lowerdirs(t[p]) # <<>>
         THEN Overlay(overlay_lowerdirs(t[p]))
    ELSE fallback_strategy(\E c \in DOMAIN childStrategy :
                              childStrategy[c] # Passthrough)

RECURSIVE resolve_strategy(_, _, _)
resolve_strategy(cfg, t, p) ==
    resolve_node(cfg, t, p,
                 [c \in Children(t, p) |-> resolve_strategy(cfg, t, c)])

resolve_tree(cfg, t) ==
    [p \in DOMAIN t |-> [t[p] EXCEPT !.strategy = resolve_strategy(cfg, t, p)]]

(***************************************************************************)
(* Planner actions                                                         *)
(***************************************************************************)
NoResult == [kind |-> "none"]

\* Rules the redirector may hold when execute is entered.
StaleRule == [src |-> <<"system", "bin", "su">>,
              target |-> <<"mirror", "system", "bin", "su">>]
InstalledBefore == {{}, {StaleRule}}

InitPlan ==
    /\ config \in Configs
    /\ hymo_available = FALSE
    /\ \E n \in 0..MaxModules : modules \in ModuleLists(n)
    /\ ingested = 0
    /\ tree = (Root :> FsNode_new)
    /\ pc = "generate"
    /\ todo = <<>>
    /\ events = <<>>
    /\ stats = [overlay |-> {}, hymo |-> {}, magic |-> {}]
    /\ result = NoResult
    /\ tmpfs = EmptyMap
    /\ hymo_rules \in InstalledBefore
    /\ hymo_log = <<>>

\* One iteration of the module loop of generate.
Ingest ==
    /\ pc = "generate"
    /\ ingested < Len(modules)
    /\ LET m == modules[ingested + 1]
           E == walk_entries(config, m)
       IN  \E order \in WalkOrders(E) : tree' \in insert_all(tree, m, order)
    /\ ingested' = ingested + 1
    /\ UNCHANGED <<config, hymo_available, modules, pc, todo, events, stats,
                   result, tmpfs, hymo_rules, hymo_log>>

\* The end of generate: resolve_tree(root) and the plan is returned.
Resolve ==
    /\ pc = "generate"
    /\ ingested = Len(modules)
    /\ tree' = resolve_tree(config, tree)
    /\ pc' = "execute"
    /\ UNCHANGED <<config, hymo_available, modules, ingested, todo, events,
                   stats, result, tmpfs, hymo_rules, hymo_log>>

(***************************************************************************)
(* The mount namespace, as far as the skeletons change it                  *)
(***************************************************************************)
Absent == [kind |-> "absent", type |-> "None"]

\* What path p resolves to, given the skeletons tm mounted above it: the
\* device's own entry ("disk"), an empty placeholder a skeleton created
\* ("placeholder"), or nothing.
RECURSIVE Visible(_, _)
Visible(tm, p) ==
    IF p = Root THEN [kind |-> "disk", type |-> "Directory"]
    ELSE IF Parent(p) \in DOMAIN tm
    THEN IF Name(p) \in DOMAIN tm[Parent(p)]
         THEN LET e == tm[Parent(p)][Name(p)]
              IN  [kind |-> IF e.from = "mirror" THEN "disk" ELSE "placeholder",
                   type |-> e.type]
         ELSE Absent
    ELSE IF Visible(tm, Parent(p)).kind = "disk" /\ DiskType(p) # "None"
    THEN [kind |-> "disk", type |-> DiskType(p)]
    ELSE Absent

\* read_dir of the directory visible at p: a placeholder is empty.
VisibleEntries(tm, p) ==
    IF Visible(tm, p).kind = "disk" THEN DiskEntries(p) ELSE EmptyMap

(***************************************************************************)
(* mount/magic.rs                                                          *)
(***************************************************************************)
\* Step 5 of populate_skeleton for one mirror entry: a placeholder for an
\* excluded name, the original bound (or the symlink recreated) otherwise.
\* `lost` are the entries whose bind_mount failed, which leaves them empty.
skeleton_entry(name, ft, exclusions, lost) ==
    IF name \in exclusions THEN [type |-> ft, from |-> "placeholder"]
    ELSE IF ft = "Symlink" THEN [type |-> ft, from |-> "mirror"]
    ELSE IF name \in lost THEN [type |-> ft, from |-> "placeholder"]
    ELSE [type |-> ft, from |-> "mirror"]

\* The tmpfs populate_skeleton leaves at target when it returns Ok.
populate_skeleton(tm, target, exclusions, lost) ==
    LET mirror == VisibleEntries(tm, target)
    IN  [n \in DOMAIN mirror |-> skeleton_entry(n, mirror[n], exclusions, lost)]

\* bind_mount(target, mirror_dir) and read_dir(mirror_dir) need a directory.
skeleton_possible(tm, target) == Visible(tm, target).type = "Directory"

\* Entries whose bind_mount can fail: the ones that are bound.
bound_entries(tm, target, exclusions) ==
    {n \in DOMAIN VisibleEntries(tm, target) :
        n \notin exclusions /\ VisibleEntries(tm, target)[n] # "Symlink"}

(***************************************************************************)
(* core/executor.rs                                                        *)
(***************************************************************************)
Enter(n) == [op |-> "enter", node |-> n]
Private(n) == [op |-> "private", node |-> n]

\* Faulty variant: the traversal handed every descendant at once.
exec_children_flat(t, n) == {q \in DOMAIN t : IsAncestor(n, q)}

\* node.children.values(): the children the executor recurses into.
exec_children(t, n) == Children(t, n)

child_frames(order) == [i \in DOMAIN order |-> Enter(order[i])]

\* Faulty variant: only the children mounted by a single operation excluded.
exclusions_of_resolved(t, n) ==
    {Name(c) : c \in {c \in Children(t, n) :
        t[c].strategy.kind \notin {"Passthrough", "Unresolved", "Magic"}}}

\* The names of the children whose strategy is not Passthrough.
exclusions_of(t, n) ==
    {Name(c) : c \in {c \in Children(t, n) : t[c].strategy # Passthrough}}

\* Faulty variant: the executor descending below a union mount.
overlay_children_recurse(t, n) == Children(t, n)

\* The Overlay arm has no loop over node.children.
overlay_children(t, n) == {}

\* HymoFs::clear: the ioctl wipes the rule set, or fails and leaves it.
clear(rule_set, ok) == IF ok THEN {} ELSE rule_set

\* HymoFs::add_rule, when the ioctl succeeds.
add_rule(rule_set, rule) == rule_set \cup {rule}

first_module(node) ==
    IF node.mutations = <<>> THEN {} ELSE {node.mutations[1].module_id}

all_modules(node) == {node.mutations[i].module_id : i \in DOMAIN node.mutations}

\* HYMO_MIRROR_DIR joined with the target path stripped of its leading "/".
mirror_path(p) == <<"mirror">> \o p

\* copy_hymo_source returns the mirror path it copied to.
copy_hymo_source(target_path) == mirror_path(target_path)

\* The second argument of add_rule is the path copy_hymo_source returned.
rule_source(source, copied_source) == copied_source

\* Faulty variant: the rule installed before the copy, whatever its outcome.
hymo_ops_rule_first(n, source, rule, copied, added) ==
    <<[op |-> "add_rule", rule |-> rule, ok |-> added],
      [op |-> "copy", node |-> n, from |-> source, to |-> mirror_path(n),
       ok |-> copied]>>

\* The Hymo arm with the redirector available: the copy, then, only when the
\* copy succeeded, add_rule.
hymo_ops(n, source, rule, copied, added) ==
    <<[op |-> "copy", node |-> n, from |-> source, to |-> mirror_path(n),
       ok |-> copied]>>
    \o (IF copied THEN <<[op |-> "add_rule", rule |-> rule, ok |-> added]>>
        ELSE <<>>)

\* Faulty variant: a failed mount propagated with `?`, unwinding the traversal.
after_failure_abort(frames) == <<>>

\* A failed mount is logged and the traversal goes on with the frames left.
after_failure(frames) == frames

\* Faulty variant: the ids collected from the set without the sort.
RECURSIVE SortIds_unsorted(_)
SortIds_unsorted(S) ==
    IF S = {} THEN <<>>
    ELSE LET hi == CHOOSE x \in S : \A y \in S : IdRank(y) <= IdRank(x)
         IN  <<hi>> \o SortIds_unsorted(S \ {hi})

RECURSIVE SortIds(_)
SortIds(S) ==
    IF S = {} THEN <<>>
    ELSE LET lo == CHOOSE x \in S : \A y \in S : IdRank(x) <= IdRank(y)
         IN  <<lo>> \o SortIds(S \ {lo})

Event(n, kind, ok) == [node |-> n, kind |-> kind, ok |-> ok]

\* execute, lines 27-36.
ExecuteBegin ==
    /\ pc = "execute"
    /\ \E avail \in BOOLEAN, cleared \in BOOLEAN :
          /\ hymo_available' = avail
          /\ hymo_rules' = IF avail THEN clear(hymo_rules, cleared) ELSE hymo_rules
          /\ hymo_log' = IF avail THEN <<[op |-> "clear", ok |-> cleared]>>
                          ELSE <<>>
    /\ stats' = [overlay |-> {}, hymo |-> {}, magic |-> {}]
    /\ todo' = <<Enter(Root)>>
    /\ pc' = "executing"
    /\ UNCHANGED <<config, modules, ingested, tree, events, result, tmpfs>>

ExecPassthrough(n, rest) ==
    /\ tree[n].strategy.kind \in {"Unresolved", "Passthrough"}
    /\ \E order \in Perms(exec_children(tree, n)) :
          todo' = child_frames(order) \o rest
    /\ events' = Append(events, Event(n, tree[n].strategy.kind, TRUE))
    /\ UNCHANGED <<stats, tmpfs, hymo_rules, hymo_log>>

ExecOverlay(n, rest) ==
    /\ tree[n].strategy.kind = "Overlay"
    /\ stats' = [stats EXCEPT !.overlay = @ \cup all_modules(tree[n])]
    /\ \E ok \in BOOLEAN :
          /\ events' = Append(events, Event(n, "Overlay", ok))
          /\ \E order \in Perms(overlay_children(tree, n)) :
                todo' = child_frames(order)
                        \o (IF ok THEN rest ELSE after_failure(rest))
    /\ UNCHANGED <<tmpfs, hymo_rules, hymo_log>>

ExecHymo(n, rest) ==
    /\ tree[n].strategy.kind = "Hymo"
    /\ stats' = [stats EXCEPT !.hymo = @ \cup first_module(tree[n])]
    /\ IF hymo_available
       THEN \E copied \in BOOLEAN, added \in BOOLEAN :
              LET source == tree[n].strategy.source
                  copied_source == copy_hymo_source(n)
                  rule == [src |-> n,
                           target |-> rule_source(source, copied_source)]
              IN  /\ hymo_rules' = IF copied /\ added
                                    THEN add_rule(hymo_rules, rule)
                                    ELSE hymo_rules
                  /\ hymo_log' = hymo_log \o hymo_ops(n, source, rule, copied, added)
                  /\ events' = Append(events, Event(n, "Hymo", copied /\ added))
                  /\ todo' = IF copied /\ added THEN rest ELSE after_failure(rest)
       ELSE /\ hymo_rules' = hymo_rules
            /\ hymo_log' = hymo_log
            /\ events' = Append(events, Event(n, "Hymo", TRUE))
            /\ todo' = rest
    /\ UNCHANGED tmpfs

ExecBind(n, rest) ==
    /\ tree[n].strategy.kind = "Bind"
    /\ stats' = [stats EXCEPT !.magic = @ \cup first_module(tree[n])]
    /\ \E ok \in BOOLEAN :
          /\ events' = Append(events, Event(n, "Bind", ok))
          /\ todo' = IF ok THEN rest ELSE after_failure(rest)
    /\ UNCHANGED <<tmpfs, hymo_rules, hymo_log>>

ExecMagic(n, rest) ==
    /\ tree[n].strategy.kind = "Magic"
    /\ stats' = [stats EXCEPT !.magic = @ \cup first_module(tree[n])]
    /\ LET exclusions == exclusions_of(tree, n)
       IN  \/ \* populate_skeleton returns Err: logged, return Ok(())
              /\ events' = Append(events,
                    [node |-> n, kind |-> "Magic", ok |-> FALSE,
                     exclusions |-> exclusions, lost |-> {}])
              /\ todo' = after_failure(rest)
              /\ tmpfs' = tmpfs
           \/ \* populate_skeleton returns Ok: recurse, then make it private
              /\ skeleton_possible(tmpfs, n)
              /\ \E lost \in {{}} \cup {{x} : x \in bound_entries(tmpfs, n, exclusions)} :
                    /\ tmpfs' = (n :> populate_skeleton(tmpfs, n, exclusions, lost))
                                @@ tmpfs
                    /\ events' = Append(events,
                          [node |-> n, kind |-> "Magic", ok |-> TRUE,
                           exclusions |-> exclusions, lost |-> lost])
              /\ \E order \in Perms(exec_children(tree, n)) :
                    todo' = child_frames(order) \o <<Private(n)>> \o rest
    /\ UNCHANGED <<hymo_rules, hymo_log>>

\* One call of execute_node.
ExecuteNode ==
    /\ pc = "executing"
    /\ todo # <<>>
    /\ Head(todo).op = "enter"
    /\ LET n == Head(todo).node
           rest == Tail(todo)
       IN  \/ ExecPassthrough(n, rest)
           \/ ExecOverlay(n, rest)
           \/ ExecHymo(n, rest)
           \/ ExecBind(n, rest)
           \/ ExecMagic(n, rest)
    /\ UNCHANGED <<config, hymo_available, modules, ingested, tree, pc, result>>

\* The end of the Magic arm: mount_change(node.path, PRIVATE), result ignored.
MagicPrivate ==
    /\ pc = "executing"
    /\ todo # <<>>
    /\ Head(todo).op = "private"
    /\ todo' = Tail(todo)
    /\ UNCHANGED <<config, hymo_available, modules, ingested, tree, pc, events,
                   stats, result, tmpfs, hymo_rules, hymo_log>>

\* execute, lines 38-50: execute_node returned Ok, the sets are sorted.
ExecuteEnd ==
    /\ pc = "executing"
    /\ todo = <<>>
    /\ result' = [kind |-> "Ok",
                  overlay_module_ids |-> SortIds(stats.overlay),
                  hymo_module_ids |-> SortIds(stats.hymo),
                  magic_module_ids |-> SortIds(stats.magic)]
    /\ pc' = "done"
    /\ UNCHANGED <<config, hymo_available, modules, ingested, tree, todo,
                   events, stats, tmpfs, hymo_rules, hymo_log>>

(***************************************************************************)
(* ModuleRules: inputs and actions                                         *)
(***************************************************************************)
\* Strings over the letters s, e, h: "s", "s/e", "s/e/h", "se", ...
Str_s == <<"s">>
Str_se == <<"s", "e">>
Str_s_e == <<"s", "/", "e">>
Str_s_e_h == <<"s", "/", "e", "/", "h">>
Str_se_h == <<"s", "e", "/", "h">>

LegacyLines ==
    [word : {"hymofs", "tmpfs", "bogus"}, path : {Str_s, <<"/">> \o Str_s_e}]

LegacyFiles ==
    {Missing} \cup
    {[kind |-> "lines", lines |-> l] :
        l \in UNION {[1..n -> LegacyLines] : n \in 0..MaxLegacyLines}}

InternalFiles ==
    {Missing, Invalid} \cup
    {Parsed([default_mode |-> d, paths |-> pm]) :
        d \in {"Auto", "Magic"},
        pm \in {EmptyMap, Str_s_e :> "Ignore", Str_s_e_h :> "Overlay"}}

UserFiles ==
    {Missing, Invalid} \cup
    {Parsed([default_mode |-> d, paths |-> pm]) :
        d \in {"Auto", "HymoFs"}, pm \in {EmptyMap, Str_s :> "Overlay"}}

Queries == {Str_s_e_h, <<"/">> \o Str_s_e_h, Str_se_h, Str_s_e, Str_s}

InitRules ==
    /\ rule_files \in [legacy : LegacyFiles, internal : InternalFiles,
                       user : UserFiles]
    /\ rules = [kind |-> "unloaded"]
    /\ query = <<>>
    /\ mode_out = "none"

\* ModuleRules::load, as scan calls it for a module.
Load ==
    /\ rules = [kind |-> "unloaded"]
    /\ rules' = load(rule_files)
    /\ UNCHANGED <<rule_files, query, mode_out>>

\* ModuleRules::get_mode on the loaded rules.
GetMode ==
    /\ rules # [kind |-> "unloaded"]
    /\ \E q \in Queries :
       \E order \in Perms(DOMAIN rules.paths) :
          /\ query' = q
          /\ mode_out' = get_mode(rules, q, order)
    /\ UNCHANGED <<rule_files, rules>>

(***************************************************************************)
(* mount/overlay.rs: mount_overlayfs and the staged mount                  *)
(***************************************************************************)
PAGE_LIMIT == 4000
SAFE_CHUNK_SIZE == 3500

\* Length of "/proc/self/fd/<n>", the lowest layer mount_overlay passes.
LowestLen == 16

\* Lengths of the lowerdir strings the calls of the model are made with.
DirLens == {1200, 1800, 3600}

RECURSIVE SumLen(_)
SumLen(ls) == IF ls = <<>> THEN 0 ELSE Head(ls) + SumLen(Tail(ls))

\* lowerdir_config.len(): the lowerdirs and lowest joined by ":".
lowerdir_config_len(ls) == SumLen(ls) + Len(ls) + LowestLen

\* The chunking loop: batches of indices into lower_dirs.
RECURSIVE chunk(_, _, _, _, _)
chunk(ls, i, done, current_batch, current_len) ==
    IF i > Len(ls)
    THEN IF current_batch # <<>> THEN Append(done, current_batch) ELSE done
    ELSE IF current_len + ls[i] + 1 > SAFE_CHUNK_SIZE
         THEN chunk(ls, i + 1, Append(done, current_batch), <<i>>, ls[i] + 1)
         ELSE chunk(ls, i + 1, done, Append(current_batch, i),
                    current_len + ls[i] + 1)

make_batches(ls) == chunk(ls, 1, <<>>, <<>>, 0)

\* Faulty variant: the batches taken in their own order.
Reverse_skipped(q) == q

\* batches.iter().rev()
Reverse(q) == [i \in DOMAIN q |-> q[Len(q) + 1 - i]]

\* The paths a stage is mounted at or on: the target, the descriptor path of
\* the target's original content, a stage directory.
Dest == <<"dest">>
Lowest == <<"lowest">>
StageDir(i) == <<"staging", i>>

\* impl Drop for StagedMountGuard: the staging directory once the guard of
\* a failed call has been dropped.
guard_drop(g, dirs) ==
    IF g.committed THEN dirs
    ELSE [d \in DOMAIN dirs \ Range(g.mounts) |-> dirs[d]]

InitStaged ==
    /\ lower_dirs \in UNION {[1..n -> DirLens] : n \in 1..MaxLowerdirs}
    /\ batches = <<>>
    /\ stage_i = 0
    /\ guard = [mounts |-> <<>>, committed |-> FALSE]
    /\ staging = EmptyMap
    /\ stack = <<>>
    /\ spc = "idle"
    /\ created = {}

\* mount_overlayfs: one mount when the argument is short, staged otherwise.
MountOverlayfs ==
    /\ spc = "idle"
    /\ \E has_rw \in BOOLEAN, ok \in BOOLEAN :
          IF lowerdir_config_len(lower_dirs) < PAGE_LIMIT
          THEN /\ spc' = IF ok THEN "ok" ELSE "err"
               /\ stack' = IF ok
                           THEN <<[at |-> Dest,
                                   lower |-> [i \in DOMAIN lower_dirs |-> i],
                                   base |-> Lowest]>>
                           ELSE stack
               /\ UNCHANGED batches
          ELSE IF has_rw \/ ~ok
          THEN \* bail!, or the staging root cannot be created
               /\ spc' = "err"
               /\ UNCHANGED <<batches, stack>>
          ELSE /\ batches' = make_batches(lower_dirs)
               /\ spc' = "staged"
               /\ UNCHANGED stack
    /\ UNCHANGED <<lower_dirs, stage_i, guard, staging, created>>

\* One iteration of the stage loop of mount_overlayfs_staged; the last one
\* commits the guard, a failing one returns and drops it.
Stage ==
    /\ spc = "staged"
    /\ stage_i < Len(batches)
    /\ LET batch == Reverse(batches)[stage_i + 1]
           is_last_layer == stage_i = Len(batches) - 1
           target_path == IF is_last_layer THEN Dest ELSE StageDir(stage_i)
           current_base == IF guard.mounts = <<>> THEN Lowest
                           ELSE guard.mounts[Len(guard.mounts)]
       IN  \E dir_ok \in BOOLEAN, mount_ok \in BOOLEAN :
           LET made == IF ~is_last_layer /\ dir_ok
                       THEN (target_path :> "dir") @@ staging ELSE staging
           IN  /\ created' = IF ~is_last_layer /\ dir_ok
                             THEN created \cup {target_path} ELSE created
               /\ IF (~is_last_layer /\ ~dir_ok) \/ ~mount_ok
                  THEN /\ staging' = guard_drop(guard, made)
                       /\ spc' = "err"
                       /\ UNCHANGED <<guard, stack, stage_i>>
                  ELSE /\ stack' = Append(stack, [at |-> target_path,
                                                  lower |-> batch,
                                                  base |-> current_base])
                       /\ stage_i' = stage_i + 1
                       /\ IF is_last_layer
                          THEN /\ guard' = [guard EXCEPT !.committed = TRUE]
                               /\ staging' = made
                               /\ spc' = "ok"
                          ELSE /\ guard' = [guard EXCEPT
                                              !.mounts = Append(@, target_path)]
                               /\ staging' = [made EXCEPT
                                                ![target_path] = "mounted"]
                               /\ spc' = spc
    /\ UNCHANGED <<lower_dirs, batches>>

(***************************************************************************)
(* core/inventory.rs: scan                                                 *)
(***************************************************************************)
ReservedNames == {"meta-hybrid", "lost+found", ".git"}
MarkerFiles == {"DISABLE_FILE_NAME", "REMOVE_FILE_NAME", "SKIP_MOUNT_FILE_NAME"}

\* What an entry of source_dir can be: a file, or a directory holding some
\* of the marker files.
EntryKinds ==
    {[is_dir |-> FALSE, markers |-> {}]}
    \cup {[is_dir |-> TRUE, markers |-> ms] :
            ms \in {{}} \cup {{f} : f \in MarkerFiles}}

ScanNames == {"a", "b", "c"}

SourceDirs ==
    {[kind |-> "missing"]} \cup
    UNION {UNION {{[kind |-> "dir", entries |-> f @@ g] :
                      f \in [S -> EntryKinds],
                      g \in [R -> {[is_dir |-> TRUE, markers |-> {}]}]} :
                  S \in SUBSET ScanNames} : R \in {{}, {"lost+found"}}}

Pending == [kind |-> "pending"]
None == [kind |-> "None"]
Some(m) == [kind |-> "Some", module |-> m]

\* The filter_map closure of scan, applied to one directory entry.
scan_entry(dir, id) ==
    LET e == dir.entries[id]
    IN  IF ~e.is_dir THEN None
        ELSE IF id \in ReservedNames THEN None
        ELSE IF e.markers # {} THEN None
        ELSE Some([id |-> id,
                   source_path |-> <<"modules", id>>,
                   rules |-> load([legacy |-> Missing, internal |-> Missing,
                                   user |-> Missing])])

\* collect(): the modules the closure kept, in the order of dir_entries.
RECURSIVE collect(_, _)
collect(order, sl) ==
    IF order = <<>> THEN <<>>
    ELSE (IF sl[Head(order)].kind = "Some" THEN <<sl[Head(order)].module>>
          ELSE <<>>)
         \o collect(Tail(order), sl)

\* Faulty variant: the collected list returned as it is.
sort_by_id_skipped(ms) == ms

\* modules.sort_by(|a, b| a.id.cmp(&b.id)): a stable sort by id.
RECURSIVE sort_by_id(_)
sort_by_id(ms) ==
    IF ms = <<>> THEN <<>>
    ELSE LET lo == CHOOSE i \in DOMAIN ms :
                      /\ \A j \in DOMAIN ms : IdRank(ms[i].id) <= IdRank(ms[j].id)
                      /\ \A j \in 1..(i - 1) : ms[j].id # ms[i].id
             others == [k \in 1..(Len(ms) - 1) |-> IF k < lo THEN ms[k] ELSE ms[k + 1]]
         IN  <<ms[lo]>> \o sort_by_id(others)

InitScan ==
    /\ source_dir \in SourceDirs
    /\ dir_entries = <<>>
    /\ slots = EmptyMap
    /\ scan_out = [kind |-> "none"]
    /\ scan_pc = "idle"

\* scan up to the parallel iterator: the existence test and read_dir.
ScanBegin ==
    /\ scan_pc = "idle"
    /\ IF source_dir.kind = "missing"
       THEN /\ scan_out' = [kind |-> "Ok", modules |-> <<>>]
            /\ scan_pc' = "done"
            /\ UNCHANGED <<dir_entries, slots>>
       ELSE \E io_ok \in BOOLEAN :
              IF io_ok
              THEN \E order \in Perms(DOMAIN source_dir.entries) :
                     /\ dir_entries' = order
                     /\ slots' = [id \in DOMAIN source_dir.entries |-> Pending]
                     /\ scan_pc' = "scanning"
                     /\ UNCHANGED scan_out
              ELSE /\ scan_out' = [kind |-> "Err"]
                   /\ scan_pc' = "done"
                   /\ UNCHANGED <<dir_entries, slots>>
    /\ UNCHANGED source_dir

\* One task of the parallel iterator runs the closure on its entry.
ScanTask ==
    /\ scan_pc = "scanning"
    /\ \E id \in DOMAIN slots :
          /\ slots[id] = Pending
          /\ slots' = [slots EXCEPT ![id] = scan_entry(source_dir, id)]
    /\ UNCHANGED <<source_dir, dir_entries, scan_out, scan_pc>>

\* All tasks have finished: collect, sort, return.
ScanEnd ==
    /\ scan_pc = "scanning"
    /\ \A id \in DOMAIN slots : slots[id] # Pending
    /\ scan_out' = [kind |-> "Ok",
                    modules |-> sort_by_id(collect(dir_entries, slots))]
    /\ scan_pc' = "done"
    /\ UNCHANGED <<source_dir, dir_entries, slots>>

(***************************************************************************)
(* Specifications                                                          *)
(***************************************************************************)
IdlePlan ==
    /\ config = [force_ext4 |-> FALSE, partitions |-> <<>>]
    /\ hymo_available = FALSE
    /\ modules = <<>>
    /\ ingested = 0
    /\ tree = (Root :> FsNode_new)
    /\ pc = "idle"
    /\ todo = <<>>
    /\ events = <<>>
    /\ stats = [overlay |-> {}, hymo |-> {}, magic |-> {}]
    /\ result = NoResult
    /\ tmpfs = EmptyMap
    /\ hymo_rules = {}
    /\ hymo_log = <<>>

IdleRules ==
    /\ rule_files = [legacy |-> Missing, internal |-> Missing, user |-> Missing]
    /\ rules = [kind |-> "unloaded"]
    /\ query = <<>>
    /\ mode_out = "none"

IdleStaged ==
    /\ lower_dirs = <<>>
    /\ batches = <<>>
    /\ stage_i = 0
    /\ guard = [mounts |-> <<>>, committed |-> FALSE]
    /\ staging = EmptyMap
    /\ stack = <<>>
    /\ spc = "idle"
    /\ created = {}

IdleScan ==
    /\ source_dir = [kind |-> "missing"]
    /\ dir_entries = <<>>
    /\ slots = EmptyMap
    /\ scan_out = [kind |-> "none"]
    /\ scan_pc = "unused"

\* generate followed by execute.
Init == InitPlan /\ IdleRules /\ IdleStaged /\ IdleScan

Next ==
    \/ Ingest /\ UNCHANGED <<rulesVars, stagedVars, scanVars>>
    \/ Resolve /\ UNCHANGED <<rulesVars, stagedVars, scanVars>>
    \/ ExecuteBegin /\ UNCHANGED <<rulesVars, stagedVars, scanVars>>
    \/ ExecuteNode /\ UNCHANGED <<rulesVars, stagedVars, scanVars>>
    \/ MagicPrivate /\ UNCHANGED <<rulesVars, stagedVars, scanVars>>
    \/ ExecuteEnd /\ UNCHANGED <<rulesVars, stagedVars, scanVars>>

Spec == Init /\ [][Next]_vars

\* ModuleRules::load followed by get_mode calls.
RulesInit == IdlePlan /\ InitRules /\ IdleStaged /\ IdleScan

RulesNext ==
    \/ Load /\ UNCHANGED <<planVars, stagedVars, scanVars>>
    \/ GetMode /\ UNCHANGED <<planVars, stagedVars, scanVars>>

SpecRules == RulesInit /\ [][RulesNext]_vars

\* One call of mount_overlayfs.
StagedInit == IdlePlan /\ IdleRules /\ InitStaged /\ IdleScan

StagedNext ==
    \/ MountOverlayfs /\ UNCHANGED <<planVars, rulesVars, scanVars>>
    \/ Stage /\ UNCHANGED <<planVars, rulesVars, scanVars>>

SpecStaged == StagedInit /\ [][StagedNext]_vars

\* One call of scan.
ScanInit == IdlePlan /\ IdleRules /\ IdleStaged /\ InitScan

ScanNext ==
    \/ ScanBegin /\ UNCHANGED <<planVars, rulesVars, stagedVars>>
    \/ ScanTask /\ UNCHANGED <<planVars, rulesVars, stagedVars>>
    \/ ScanEnd /\ UNCHANGED <<planVars, rulesVars, stagedVars>>

SpecScan == ScanInit /\ [][ScanNext]_vars

(***************************************************************************)
(* Properties of the planner and the executor                              *)
(***************************************************************************)
Planned == pc \in {"execute", "executing", "done"}

Executed(n) == \E i \in DOMAIN events : events[i].node = n

\* C1: after resolve_tree, every node of the plan has a strategy other than
\* Unresolved.
Thm_C1 ==
    Planned => \A p \in DOMAIN tree : tree[p].strategy.kind # "Unresolved"

Wit_C1 ==
    /\ Planned
    /\ \E p \in DOMAIN tree : tree[p].strategy.kind = "Magic"
    /\ \E p \in DOMAIN tree : tree[p].strategy.kind = "Overlay"
    /\ \E p \in DOMAIN tree : Len(p) = 3 /\ tree[p].strategy.kind = "Passthrough"

\* C2: after resolve_tree, the virtual root and every depth-1 node whose name
\* is a built-in partition or listed in config.partitions is Passthrough.
Claim_C2 ==
    Planned =>
        /\ tree[Root].strategy = Passthrough
        /\ \A p \in DOMAIN tree :
              (Len(p) = 1 /\ Name(p) \in BUILTIN_PARTITIONS \cup Range(config.partitions))
                => tree[p].strategy = Passthrough

\* C3: an Overlay node has a non-empty lowerdirs list that is the source paths
\* of its mutations in insertion order, which is ascending module id, and all
\* its mutations are directories.
Thm_C3 ==
    Planned => \A p \in DOMAIN tree :
        tree[p].strategy.kind = "Overlay" =>
            LET muts == tree[p].mutations
                lowerdirs == tree[p].strategy.lowerdirs
            IN  /\ lowerdirs # <<>>
                /\ lowerdirs = [i \in DOMAIN muts |-> muts[i].source_path]
                /\ \A i \in DOMAIN muts : muts[i].file_type = "Directory"
                /\ \A i, j \in DOMAIN muts :
                      i < j => IdRank(muts[i].module_id) < IdRank(muts[j].module_id)

Wit_C3 ==
    /\ Planned
    /\ \E p \in DOMAIN tree :
          /\ tree[p].strategy.kind = "Overlay"
          /\ Len(tree[p].mutations) = 2
          /\ tree[p].mutations[1].source_path # tree[p].mutations[2].source_path

\* C4: a Redirect (Hymo) node's first mutation is not a directory, and a node
\* whose first mutation is a directory in mode HymoFs is Passthrough.
Thm_C4 ==
    Planned => \A p \in DOMAIN tree :
        /\ tree[p].strategy.kind = "Hymo" =>
              /\ tree[p].mutations # <<>>
              /\ tree[p].mutations[1].file_type # "Directory"
        /\ (/\ tree[p].mutations # <<>>
            /\ tree[p].mutations[1].mode = "HymoFs"
            /\ tree[p].mutations[1].file_type = "Directory")
              => tree[p].strategy = Passthrough

Wit_C4 ==
    /\ Planned
    /\ \E p \in DOMAIN tree : tree[p].strategy.kind = "Hymo"
    /\ \E p \in DOMAIN tree :
          /\ tree[p].mutations # <<>>
          /\ tree[p].mutations[1].mode = "HymoFs"
          /\ tree[p].mutations[1].file_type = "Directory"

AllMountsSucceeded ==
    \A i \in DOMAIN events :
        events[i].ok /\ (events[i].kind = "Magic" => events[i].lost = {})

\* C7: when every mount operation succeeded, every Tmpfs node that has been
\* materialized shows each original entry of its directory that is not an
\* exclusion, with its original content. Stated for the nodes below a
\* built-in partition, whose root is never a skeleton itself.
Claim_C7 ==
    AllMountsSucceeded =>
        \A i \in DOMAIN events :
            (events[i].kind = "Magic" /\ events[i].node[1] \in BUILTIN_PARTITIONS) =>
                LET T == events[i].node
                    orig == DiskEntries(T)
                IN  \A name \in DOMAIN orig \ events[i].exclusions :
                        /\ name \in DOMAIN tmpfs[T]
                        /\ tmpfs[T][name] = [type |-> orig[name], from |-> "mirror"]

\* The same for the skeletons mounted on the device's own directory only.
TopLevel_C7 ==
    AllMountsSucceeded =>
        \A i \in DOMAIN events :
            (/\ events[i].kind = "Magic"
             /\ \A j \in DOMAIN events :
                   IsAncestor(events[j].node, events[i].node)
                     => events[j].kind # "Magic")
              => LET T == events[i].node
                     orig == DiskEntries(T)
                 IN  \A name \in DOMAIN orig \ events[i].exclusions :
                         /\ name \in DOMAIN tmpfs[T]
                         /\ tmpfs[T][name] = [type |-> orig[name], from |-> "mirror"]

\* The modules and files scenario 1 speaks of: default Auto, no path rules,
\* a regular file in a directory below a partition, nobody else contributing
\* at the file or at its directory.
AutoFileCases ==
    {c \in (DOMAIN modules) \X (DOMAIN tree) :
        /\ modules[c[1]].rules.default_mode = "Auto"
        /\ DOMAIN modules[c[1]].rules.paths = {}
        /\ c[2] \in walk_entries(config, modules[c[1]])
        /\ modules[c[1]].content[c[2]] = "File"
        /\ Len(c[2]) >= 3
        /\ Len(tree[c[2]].mutations) = 1
        /\ Len(tree[Parent(c[2])].mutations) = 1}

SourceOf(m, rel) == content_path(m) \o rel

\* C8: for a module with default Auto and no path rules that contributes a
\* regular file under a partition, the file's node is Bind with the module's
\* file as source, its parent directory node is Tmpfs and the partition root
\* is Passthrough.
Claim_C8 ==
    Planned => \A c \in AutoFileCases :
        /\ tree[c[2]].strategy = Bind(SourceOf(modules[c[1]], c[2]))
        /\ tree[Parent(c[2])].strategy = Magic
        /\ tree[<<c[2][1]>>].strategy = Passthrough

\* C8, amended: the file's node is Passthrough; its parent directory node is
\* Overlay with the module's directory as only lowerdir when force_ext4 is off
\* and the directory exists on the device, and Passthrough otherwise; the root
\* of a built-in partition is Passthrough.
Thm_C8 ==
    Planned => \A c \in AutoFileCases :
        LET m == modules[c[1]]
            rel == c[2]
        IN  /\ tree[rel].strategy = Passthrough
            /\ tree[Parent(rel)].strategy =
                  IF ~config.force_ext4 /\ DiskType(Parent(rel)) = "Directory"
                  THEN Overlay(<<SourceOf(m, Parent(rel))>>)
                  ELSE Passthrough
            /\ rel[1] \in BUILTIN_PARTITIONS
                 => tree[<<rel[1]>>].strategy = Passthrough

Wit_C8 ==
    /\ Planned
    /\ \E c \in AutoFileCases :
          c[2][1] = "system" /\ tree[Parent(c[2])].strategy.kind = "Overlay"

\* C9: whenever a node is executed, each of its ancestors has been executed
\* before it, and an ancestor that is a Tmpfs node had its skeleton populated.
Thm_C9 ==
    \A i \in DOMAIN events :
        \A k \in 0..(Len(events[i].node) - 1) :
            \E j \in 1..(i - 1) :
                /\ events[j].node = SubSeq(events[i].node, 1, k)
                /\ events[j].kind = "Magic" => events[j].ok

Wit_C9 ==
    \E i, j \in DOMAIN events :
        /\ j < i
        /\ events[j].kind = "Magic" /\ events[j].ok
        /\ Parent(events[i].node) = events[j].node
        /\ events[i].kind \in {"Bind", "Magic", "Hymo"}

Failed == {i \in DOMAIN events : ~events[i].ok}

\* C10: when materializing a node failed, execute still visits the node's
\* siblings and the node's children, and returns a successful result.
Claim_C10 ==
    pc = "done" =>
        /\ result.kind = "Ok"
        /\ \A i \in Failed :
              /\ \A s \in Children(tree, Parent(events[i].node)) : Executed(s)
              /\ \A c \in Children(tree, events[i].node) : Executed(c)

\* C10, amended: when materializing a node failed, execute still visits the
\* node's siblings and returns a successful result.
Thm_C10 ==
    pc = "done" =>
        /\ result.kind = "Ok"
        /\ \A i \in Failed :
              \A s \in Children(tree, Parent(events[i].node)) : Executed(s)

Wit_C10 ==
    /\ pc = "done"
    /\ \E i \in Failed :
          /\ Children(tree, Parent(events[i].node)) # {events[i].node}
          /\ events[i].kind = "Bind"
    /\ \E i \in Failed : events[i].kind = "Magic"

\* The executed nodes of the given strategy kinds whose mount or rule
\* installation was performed and succeeded.
Materialized(kinds) ==
    {events[i].node : i \in {i \in DOMAIN events :
        /\ events[i].kind \in kinds
        /\ events[i].ok
        /\ events[i].kind = "Hymo" => hymo_available}}

Contributors(nodes) == UNION {all_modules(tree[n]) : n \in nodes}

\* C11: a module id is in overlay_module_ids, hymo_module_ids or
\* magic_module_ids exactly when the module has a mutation at a node of the
\* corresponding kind that the executor materialized successfully.
Claim_C11 ==
    pc = "done" =>
        /\ Range(result.overlay_module_ids) = Contributors(Materialized({"Overlay"}))
        /\ Range(result.hymo_module_ids) = Contributors(Materialized({"Hymo"}))
        /\ Range(result.magic_module_ids) =
              Contributors(Materialized({"Bind", "Magic"}))

\* The rules whose add_rule ioctl succeeded during the run.
RulesAdded ==
    {hymo_log[i].rule : i \in {i \in DOMAIN hymo_log :
        hymo_log[i].op = "add_rule" /\ hymo_log[i].ok}}

\* C12: in a run with the redirector available clear_all is issued before
\* any add_rule, and when the run ends the rule set is exactly the rules added
\* for the Redirect nodes of this plan, whatever was installed before.
Claim_C12 ==
    (pc = "done" /\ hymo_available) =>
        /\ hymo_log # <<>> /\ hymo_log[1].op = "clear"
        /\ \A i \in DOMAIN hymo_log : i > 1 => hymo_log[i].op # "clear"
        /\ hymo_rules = RulesAdded

\* Whether execute_node is called on n, given the plan and the outcome of the
\* skeletons above n: the traversal descends below Passthrough nodes and
\* below Tmpfs nodes whose skeleton was populated.
RECURSIVE Reached(_)
Reached(n) ==
    \/ n = Root
    \/ /\ Reached(Parent(n))
       /\ \/ tree[Parent(n)].strategy.kind \in {"Unresolved", "Passthrough"}
          \/ /\ tree[Parent(n)].strategy.kind = "Magic"
             /\ \E i \in DOMAIN events :
                   events[i].node = Parent(n) /\ events[i].ok

ReachedOf(kinds) ==
    {n \in DOMAIN tree : tree[n].strategy.kind \in kinds /\ Reached(n)}

Ascending(ids) ==
    \A i, j \in DOMAIN ids : i < j => IdRank(ids[i]) < IdRank(ids[j])

\* C13: the lists execute returns are determined by the plan and the outcomes
\* of the operations alone, so two runs with the same outcomes return the
\* same lists: each list is strictly ascending (sorted, free of duplicates)
\* and holds the modules of the nodes reached, whatever order the children
\* maps were iterated in.
Thm_C13 ==
    pc = "done" =>
        /\ Ascending(result.overlay_module_ids)
        /\ Ascending(result.hymo_module_ids)
        /\ Ascending(result.magic_module_ids)
        /\ Range(result.overlay_module_ids) =
              UNION {all_modules(tree[n]) : n \in ReachedOf({"Overlay"})}
        /\ Range(result.hymo_module_ids) =
              UNION {first_module(tree[n]) : n \in ReachedOf({"Hymo"})}
        /\ Range(result.magic_module_ids) =
              UNION {first_module(tree[n]) : n \in ReachedOf({"Bind", "Magic"})}

Wit_C13 ==
    /\ pc = "done"
    /\ Len(result.magic_module_ids) = 2
    /\ \E i \in DOMAIN events :
          /\ events[i].kind = "Magic" /\ events[i].ok
          /\ Cardinality(Children(tree, events[i].node)) = 2
    /\ \E i, j \in DOMAIN events :
          /\ i < j
          /\ events[i].kind = "Bind" /\ events[j].kind = "Bind"
          /\ IdRank(tree[events[j].node].mutations[1].module_id)
               < IdRank(tree[events[i].node].mutations[1].module_id)

\* C14: for every Tmpfs node executed, the exclusion set handed to
\* populate_skeleton is the set of names of the node's children whose
\* strategy is not Passthrough.
Thm_C14 ==
    \A i \in DOMAIN events :
        events[i].kind = "Magic" =>
            \A name \in {Name(p) : p \in DOMAIN tree} :
                name \in events[i].exclusions
                  <=> \E c \in DOMAIN tree :
                        /\ c = Append(events[i].node, name)
                        /\ tree[c].strategy.kind # "Passthrough"

Wit_C14 ==
    \E i \in DOMAIN events :
        /\ events[i].kind = "Magic"
        /\ \E c \in Children(tree, events[i].node) :
              Name(c) \in events[i].exclusions /\ tree[c].strategy.kind = "Magic"
        /\ \E c \in Children(tree, events[i].node) :
              Name(c) \notin events[i].exclusions

\* C16: at an Overlay node execute performs one union mount and executes no
\* descendant of the node, whether the mount succeeded or failed.
Thm_C16 ==
    \A i \in DOMAIN events :
        events[i].kind = "Overlay" =>
            /\ \A j \in DOMAIN events :
                  /\ events[j].node = events[i].node => j = i
                  /\ ~IsAncestor(events[i].node, events[j].node)
            /\ \A k \in DOMAIN todo :
                  ~IsAncestor(events[i].node, todo[k].node)

Wit_C16 ==
    /\ pc = "done"
    /\ \E i, j \in DOMAIN events :
          /\ events[i].kind = "Overlay" /\ events[i].ok
          /\ events[j].kind = "Overlay" /\ ~events[j].ok
          /\ Children(tree, events[i].node) # {}
          /\ Children(tree, events[j].node) # {}

\* C19: with the redirector available, every Redirect node executed has its
\* source copied to the mirror path of the node first, and add_rule is
\* issued only after a copy that succeeded, with the mirror path and never
\* the module's own path as the rule's source; without the redirector no
\* copy, clear or add_rule is performed.
Thm_C19 ==
    /\ hymo_available =>
          /\ \A i \in DOMAIN events :
                events[i].kind = "Hymo" =>
                    \E k \in DOMAIN hymo_log :
                        /\ hymo_log[k].op = "copy"
                        /\ hymo_log[k].node = events[i].node
                        /\ hymo_log[k].from = tree[events[i].node].strategy.source
                        /\ hymo_log[k].to = <<"mirror">> \o events[i].node
          /\ \A k \in DOMAIN hymo_log :
                hymo_log[k].op = "add_rule" =>
                    /\ k > 1
                    /\ hymo_log[k - 1].op = "copy"
                    /\ hymo_log[k - 1].ok
                    /\ hymo_log[k - 1].node = hymo_log[k].rule.src
                    /\ hymo_log[k].rule.target = hymo_log[k - 1].to
                    /\ hymo_log[k].rule.target # hymo_log[k - 1].from
          /\ \A r \in hymo_rules \ {StaleRule} :
                \E k \in DOMAIN hymo_log :
                    hymo_log[k].op = "add_rule" /\ hymo_log[k].rule = r
    /\ (pc \in {"executing", "done"} /\ ~hymo_available) =>
          hymo_log = <<>> /\ hymo_rules \subseteq {StaleRule}

Wit_C19 ==
    /\ pc = "done"
    /\ hymo_available
    /\ \E k \in DOMAIN hymo_log : hymo_log[k].op = "add_rule" /\ hymo_log[k].ok
    /\ \E k \in DOMAIN hymo_log :
          /\ hymo_log[k].op = "copy" /\ ~hymo_log[k].ok
          /\ \A r \in hymo_rules : r.src # hymo_log[k].node

\* C21: after resolve_tree, every node whose first mutation is a File or a
\* Symlink with a mode other than Ignore has the Bind or the Redirect
\* strategy itself, or has an ancestor with the Overlay strategy.
Claim_C21 ==
    Planned => \A p \in DOMAIN tree :
        (/\ tree[p].mutations # <<>>
         /\ tree[p].mutations[1].file_type \in {"File", "Symlink"}
         /\ tree[p].mutations[1].mode # "Ignore")
          => \/ tree[p].strategy.kind \in {"Bind", "Hymo"}
             \/ \E a \in DOMAIN tree :
                   IsAncestor(a, p) /\ tree[a].strategy.kind = "Overlay"

\* The source paths the plan materializes: the lowerdirs of the Overlay
\* nodes and the sources of the Bind and Redirect nodes.
MaterializedSources ==
    UNION {Range(tree[p].strategy.lowerdirs) :
             p \in {q \in DOMAIN tree : tree[q].strategy.kind = "Overlay"}}
    \cup {tree[p].strategy.source :
             p \in {q \in DOMAIN tree : tree[q].strategy.kind \in {"Bind", "Hymo"}}}

\* C22: after resolve_tree, the source path of a mutation whose mode is
\* Ignore is in no Overlay node's lowerdirs and is the source of no Bind or
\* Redirect strategy.
Claim_C22 ==
    Planned => \A p \in DOMAIN tree :
        \A i \in DOMAIN tree[p].mutations :
            tree[p].mutations[i].mode = "Ignore"
              => tree[p].mutations[i].source_path \notin MaterializedSources

(***************************************************************************)
(* Properties of ModuleRules                                               *)
(***************************************************************************)
\* The keys of r that, followed by "/", are a prefix of the cleaned path.
PrefixKeys(r, clean_path) ==
    {k \in DOMAIN r.paths : StartsWith(clean_path, Append(k, "/"))}

\* The lookup as documented: exact key, else longest prefix key, else the
\* default with Auto lowered to Overlay.
documented_mode(r, relative_path) ==
    LET clean_path == trim_start_matches(relative_path)
        keys == PrefixKeys(r, clean_path)
    IN  IF clean_path \in DOMAIN r.paths THEN r.paths[clean_path]
        ELSE IF keys # {}
        THEN r.paths[CHOOSE k \in keys : \A o \in keys : Len(o) <= Len(k)]
        ELSE IF r.default_mode = "Auto" THEN "Overlay" ELSE r.default_mode

\* C5: get_mode returns the mode of the exact key, else of the longest key
\* that is a whole-component prefix, else the lowered default, whatever the
\* iteration order of the map.
Claim_C5 ==
    mode_out # "none" => mode_out = documented_mode(rules, query)

\* The contribution of each source: nothing when it is missing or invalid.
LegacyKeys ==
    IF rule_files.legacy.kind = "lines"
    THEN {trim_start_matches(rule_files.legacy.lines[i].path) :
            i \in DOMAIN rule_files.legacy.lines}
    ELSE {}

LegacyModeOf(k) ==
    LET lines == rule_files.legacy.lines
        last == CHOOSE i \in DOMAIN lines :
                    /\ trim_start_matches(lines[i].path) = k
                    /\ \A j \in DOMAIN lines :
                          trim_start_matches(lines[j].path) = k => j <= i
    IN  legacy_mode(lines[last].word)

JsonPaths(file) == IF file.kind = "parsed" THEN file.rules.paths ELSE EmptyMap

\* C17: load merges the legacy file, the module's structured file and the
\* user file in increasing precedence: a key listed by several sources gets
\* the mode of the highest one, default_mode is that of the highest
\* structured file that parsed, and a missing or invalid source contributes
\* nothing and changes nothing.
Thm_C17 ==
    rules # [kind |-> "unloaded"] =>
        LET I == JsonPaths(rule_files.internal)
            U == JsonPaths(rule_files.user)
        IN  /\ DOMAIN rules.paths = LegacyKeys \cup DOMAIN I \cup DOMAIN U
            /\ \A k \in DOMAIN rules.paths :
                  rules.paths[k] = IF k \in DOMAIN U THEN U[k]
                                   ELSE IF k \in DOMAIN I THEN I[k]
                                   ELSE LegacyModeOf(k)
            /\ rules.default_mode =
                  IF rule_files.user.kind = "parsed"
                  THEN rule_files.user.rules.default_mode
                  ELSE IF rule_files.internal.kind = "parsed"
                  THEN rule_files.internal.rules.default_mode
                  ELSE "Auto"

Wit_C17 ==
    /\ rules # [kind |-> "unloaded"]
    /\ rule_files.legacy.kind = "lines"
    /\ Str_s \in LegacyKeys /\ Str_s_e \in LegacyKeys
    /\ LegacyModeOf(Str_s) = "HymoFs" /\ LegacyModeOf(Str_s_e) = "Magic"
    /\ rule_files.internal.kind = "parsed"
    /\ rule_files.internal.rules.default_mode = "Magic"
    /\ Str_s_e \in DOMAIN rule_files.internal.rules.paths
    /\ rule_files.user.kind = "invalid"
    /\ rules.paths[Str_s_e] = "Ignore"
    /\ rules.paths[Str_s] = "HymoFs"
    /\ rules.default_mode = "Magic"

(***************************************************************************)
(* Properties of the staged mount                                          *)
(***************************************************************************)
\* C6: a staged mount that fails leaves none of the stage directories it
\* created under RUN_DIR/staging.
Claim_C6 ==
    spc = "err" => \A d \in created : d \notin DOMAIN staging

RECURSIVE Concat(_)
Concat(qs) == IF qs = <<>> THEN <<>> ELSE Head(qs) \o Concat(Tail(qs))

\* Sum over the entries of a chunk of (length + 1).
ChunkBytes(batch) == SumLen([k \in DOMAIN batch |-> lower_dirs[batch[k]] + 1])

\* C15: in staged mode the chunks, concatenated in order, are the original
\* list; every chunk is non-empty and its entries' (length + 1) sum to at
\* most 3500, also when a single path is longer than the chunk limit.
Claim_C15 ==
    spc = "staged" =>
        /\ Concat(batches) = [i \in DOMAIN lower_dirs |-> i]
        /\ \A b \in DOMAIN batches :
              /\ batches[b] # <<>>
              /\ ChunkBytes(batches[b]) <= SAFE_CHUNK_SIZE

\* The union mounted at a path of the stack, and the layers it shows once
\* every stage below it is resolved into its own layers, top first.
LayerAt(at) == CHOOSE e \in Range(stack) : e.at = at

RECURSIVE Flatten(_)
Flatten(at) ==
    IF at = Lowest THEN <<Lowest>>
    ELSE LayerAt(at).lower \o Flatten(LayerAt(at).base)

\* C20: in a successful staged mount the stages are mounted bottom-up, each
\* with the previous stage as its lowest layer, only the last one at the
\* target, and the layers of the result are lowerdirs[0], ..., lowerdirs[n-1],
\* then the original content of the target, as in a single mount.
Thm_C20 ==
    spc = "ok" =>
        /\ \A k \in DOMAIN stack :
              /\ stack[k].base = IF k = 1 THEN Lowest ELSE stack[k - 1].at
              /\ stack[k].at = Dest <=> k = Len(stack)
              /\ \A j \in DOMAIN stack : stack[j].at = stack[k].at => j = k
        /\ Flatten(Dest) = [i \in DOMAIN lower_dirs |-> i] \o <<Lowest>>

Wit_C20 ==
    /\ spc = "ok"
    /\ Len(stack) = 3
    /\ guard.committed
    /\ \E k \in DOMAIN stack : Len(stack[k].lower) = 2

(***************************************************************************)
(* Properties of scan                                                      *)
(***************************************************************************)
\* C18: scan returns exactly the immediate subdirectories of source_dir whose
\* name is not reserved and which hold no marker file, each once and in
\* ascending order of id, whatever order read_dir listed them in and the
\* tasks finished in.
Thm_C18 ==
    (scan_pc = "done" /\ scan_out.kind = "Ok" /\ source_dir.kind = "dir") =>
        LET ms == scan_out.modules
        IN  /\ {ms[i].id : i \in DOMAIN ms} =
                  {id \in DOMAIN source_dir.entries :
                      /\ source_dir.entries[id].is_dir
                      /\ id \notin ReservedNames
                      /\ source_dir.entries[id].markers = {}}
            /\ \A i, j \in DOMAIN ms :
                  i < j => IdRank(ms[i].id) < IdRank(ms[j].id)

Wit_C18 ==
    /\ scan_pc = "done" /\ scan_out.kind = "Ok"
    /\ Len(scan_out.modules) = 2
    /\ Len(dir_entries) = 4
    /\ "lost+found" \in DOMAIN source_dir.entries
    /\ \E id \in DOMAIN source_dir.entries : source_dir.entries[id].markers # {}
    /\ \E i, j \in DOMAIN dir_entries :
          /\ i < j
          /\ slots[dir_entries[i]].kind = "Some"
          /\ slots[dir_entries[j]].kind = "Some"
          /\ IdRank(dir_entries[j]) < IdRank(dir_entries[i])

====
